---- MODULE Spec2Model ----
(***************************************************************************)
(* The Pomodoro Timer of pomodoro_py/cli_timer.py as a state machine.      *)
(*                                                                         *)
(* Time.  time.monotonic() is the variable now, counted in clock quanta of *)
(* 1/Res second.  Every float the Timer holds (time_left_seconds,          *)
(* _start_time, _paused_time) is a multiple of the quantum and is stored   *)
(* as its number of quanta; focus_minutes and rest_minutes are stored as   *)
(* the number of quanta that `minutes * 60` seconds amounts to, so that    *)
(* fractional minutes (Timer(0.02, 1)) and fractional seconds are covered. *)
(* int(x) of a number of seconds is IntSeconds below: truncation toward    *)
(* zero to a whole number of seconds.                                      *)
(***************************************************************************)
EXTENDS Integers, Naturals, Sequences, FiniteSets, TLC

\* ---- bounds of the model ----
\* clock quanta per second
Res == 2
\* longest focus duration, in quanta
MaxFocus == 4
\* longest rest duration, in quanta
MaxRest == 2
\* the clock stops advancing at MaxTime quanta
MaxTime == 8
\* longest single sleep, in quanta
MaxStep == 2
\* the constructor is tried with durations down to -MaxInvalid quanta
MaxInvalid == 1
\* calendar days 1..MaxDay
MaxDay == 2
\* largest total of focus seconds a stats file holds
MaxTotal == 3
\* largest amount passed to save_daily_focus_time, in quanta; the smallest
\* is -MaxInvalid seconds
MaxAmount == 3
\* the values a settings key is given, besides its default: 1..MaxSetting
MaxSetting == 1
\* the clock of a session driven by main.py stops here
MaxClock == 14
\* calls of main.start() on the stack at most (a session begun from the menu
\* that opens after a rest runs inside the start() of the session before)
MaxFrames == 2

VARIABLES
    focus_minutes,      \* Timer.focus_minutes (as quanta of minutes*60 s)
    rest_minutes,       \* Timer.rest_minutes (as quanta of minutes*60 s)
    current_mode,       \* Timer.current_mode: "focus" or "rest"
    time_left_seconds,  \* Timer.time_left_seconds, in quanta
    is_running,         \* Timer.is_running
    is_paused,          \* Timer.is_paused
    start_time,         \* Timer._start_time, in quanta
    paused_time,        \* Timer._paused_time, in quanta
    continued_focus_elapsed_seconds, \* Timer._continued_focus_elapsed_seconds
    now,                \* time.monotonic(), in quanta
    op,                 \* the operation executed last
    acted,              \* whether that operation took its guarded branch
    returned,           \* the value the last operation returned (tick: bool)
    pre_paused,         \* is_paused as it was when that operation was called
    unpaused,           \* reference accumulator: the time slept through
                        \* while running and not paused since the last
                        \* start() or accepted start_continue_focus()
    finished_ticks,     \* tick() calls that returned True in a row, with
                        \* nothing but sleeps between them (counted to 2)
    ctor,               \* the last call of Timer(focus, rest): its
                        \* arguments and the exception it raised
    stats_file,         \* what is at STATS_FILE_PATH
    today,              \* the calendar day get_today_date_str() reports
    stats_loaded,       \* what the last load_stats() returned
    stats_call,         \* the last call made to stats.py, and the file as
                        \* that call found it
    stats_hist,         \* today's total before each of the last two
                        \* save_daily_focus_time calls that wrote the file
                        \* one right after the other, and their arguments
    settings_file,      \* what is at SETTINGS_FILE_PATH
    settings_loaded,    \* what the last load_settings() returned or raised
    settings_call,      \* the last call made to settings.py: the dict a
                        \* save wrote and, for a load, the dict written
                        \* by the call before it
    pc,                 \* where main.py is: "none" while nothing drives
                        \* the Timer, else the statement to run next
    step,               \* the statement of main.py that ran last
    frames,             \* how many calls of main.start() are on the stack
    time_is_up,         \* start(): what the last tick() of the loop gave
    initial_focus_minutes, \* _timer_instance.initial_focus_minutes
    initial_rest_minutes,  \* _timer_instance.initial_rest_minutes
    continued_seconds,  \* handle_keyboard_interrupt: continued_seconds
    focus_saves,        \* save_daily_focus_time calls made for the focus
                        \* countdown of this session (counted to 2)
    logged,             \* the amounts handle_keyboard_interrupt has passed
                        \* to save_daily_focus_time in its current run
    notify_call         \* the last send_notification: what it raised

timer == <<focus_minutes, rest_minutes, current_mode, time_left_seconds,
           is_running, is_paused, start_time, paused_time,
           continued_focus_elapsed_seconds>>

vars == <<focus_minutes, rest_minutes, current_mode, time_left_seconds,
          is_running, is_paused, start_time, paused_time,
          continued_focus_elapsed_seconds, now, op, acted, returned,
          pre_paused, finished_ticks, unpaused, ctor, stats_file, today,
          stats_loaded, stats_call, stats_hist, settings_file,
          settings_loaded, settings_call, pc, step, frames, time_is_up,
          initial_focus_minutes, initial_rest_minutes, continued_seconds,
          focus_saves, logged, notify_call>>

stats == <<stats_file, today, stats_loaded, stats_call, stats_hist>>

settings == <<settings_file, settings_loaded, settings_call>>

driver == <<pc, step, frames, time_is_up, initial_focus_minutes,
            initial_rest_minutes, continued_seconds, focus_saves, logged,
            notify_call>>

Max(a, b) == IF a >= b THEN a ELSE b

\* int(x) for x seconds held as q quanta: truncation toward zero, in seconds
IntSeconds(q) == IF q >= 0 THEN q \div Res ELSE -((-q) \div Res)

\* a whole number of seconds as quanta
Quanta(s) == s * Res

\* Timer.initial_duration_for_mode, in quanta
InitialDurationFor(mode) ==
    IF mode = "focus" THEN focus_minutes ELSE rest_minutes

initial_duration_for_mode == InitialDurationFor(current_mode)

\* what every call records about itself
Called(name, took, result) ==
    /\ op' = name
    /\ acted' = took
    /\ returned' = result
    /\ pre_paused' = is_paused
    /\ finished_ticks' =
           IF name = "sleep" THEN finished_ticks
           ELSE IF name = "tick" /\ result
                THEN (IF finished_ticks < 2 THEN finished_ticks + 1 ELSE 2)
                ELSE 0
    /\ unpaused' =
           IF name = "sleep"
           THEN (IF is_running /\ ~is_paused
                 THEN unpaused + (now' - now) ELSE unpaused)
           ELSE IF name \in {"start", "stop", "switch_mode"}
                   \/ (name = "start_continue_focus" /\ took)
                THEN 0
                ELSE unpaused
    /\ UNCHANGED <<ctor, stats, settings>>
    /\ IF pc = "none" THEN UNCHANGED driver ELSE TRUE

\* a dict with no key: {}
EmptyDict == << >>

\* no settings file yet, and settings.py not called
SettingsIdle ==
    /\ settings_file = [kind |-> "missing", text |-> {}]
    /\ settings_loaded = [raised |-> "none", value |-> EmptyDict]
    /\ settings_call = [name |-> "none", arg |-> EmptyDict, wrote |-> FALSE,
                        after_save |-> FALSE, saved |-> EmptyDict]

\* main.py is not running
DriverIdle ==
    /\ pc = "none"
    /\ step = "none"
    /\ frames = 0
    /\ time_is_up = FALSE
    /\ initial_focus_minutes = 0
    /\ initial_rest_minutes = 0
    /\ continued_seconds = 0
    /\ focus_saves = 0
    /\ logged = << >>
    /\ notify_call = [message |-> "none", raised |-> "none"]

\* no stats file yet, and stats.py not called
StatsIdle ==
    /\ stats_file = [kind |-> "missing", date |-> 0, has_seconds |-> FALSE,
                     seconds |-> 0]
    /\ today = 1
    /\ stats_loaded = [date |-> 0, seconds |-> 0]
    /\ stats_call = [name |-> "none", arg |-> 0, wrote |-> FALSE,
                     file_before |-> stats_file]
    /\ stats_hist = [before2 |-> 0, before1 |-> 0, args |-> <<>>]

\* Timer.__init__ with positive durations; the clock reads anything early
Init ==
    /\ focus_minutes \in 1..MaxFocus
    /\ rest_minutes \in 1..MaxRest
    /\ current_mode = "focus"
    /\ time_left_seconds = focus_minutes
    /\ is_running = FALSE
    /\ is_paused = FALSE
    /\ start_time = 0
    /\ paused_time = 0
    /\ continued_focus_elapsed_seconds = 0
    /\ now \in 0..MaxStep
    /\ op = "init"
    /\ acted = TRUE
    /\ returned = FALSE
    /\ pre_paused = FALSE
    /\ finished_ticks = 0
    /\ unpaused = 0
    /\ ctor = [focus |-> focus_minutes, rest |-> rest_minutes,
               raised |-> "none"]
    /\ StatsIdle
    /\ SettingsIdle
    /\ DriverIdle

\* time passes between two calls (time.sleep in the callers)
Sleep ==
    \E d \in 1..MaxStep :
        /\ now + d <= MaxTime
        /\ now' = now + d
        /\ UNCHANGED timer
        /\ Called("sleep", FALSE, FALSE)

\* a start() that only restarts a timer that is not already running
StartLeavesRunningSegment ==
    /\ is_running' = TRUE
    /\ is_paused' = FALSE
    /\ start_time' = IF is_running THEN start_time ELSE now
    /\ continued_focus_elapsed_seconds' = 0
    /\ time_left_seconds' =
           IF is_running THEN time_left_seconds ELSE initial_duration_for_mode
    /\ UNCHANGED <<focus_minutes, rest_minutes, current_mode, paused_time, now>>
    /\ Called("start", TRUE, FALSE)

\* Timer.start
Start ==
    /\ is_running' = TRUE
    /\ is_paused' = FALSE
    /\ start_time' = now
    /\ continued_focus_elapsed_seconds' = 0
    /\ time_left_seconds' = initial_duration_for_mode
    /\ UNCHANGED <<focus_minutes, rest_minutes, current_mode, paused_time, now>>
    /\ Called("start", TRUE, FALSE)

\* a pause() that forgets the already-paused half of its guard
PauseAllowedWhenRunning == is_running

\* Timer.pause: its guard
PauseAllowed == is_running /\ ~is_paused

\* a pause() that saves whole seconds, as tick() does
PausedTimeLeftWholeSeconds(elapsed_time_before_pause) ==
    IF continued_focus_elapsed_seconds > 0
    THEN Quanta(IntSeconds(elapsed_time_before_pause))
    ELSE Quanta(Max(0, IntSeconds(initial_duration_for_mode
                                    - elapsed_time_before_pause)))

\* Timer.pause: the remaining time it saves, from the elapsed time
PausedTimeLeft(elapsed_time_before_pause) ==
    IF continued_focus_elapsed_seconds > 0
    THEN elapsed_time_before_pause
    ELSE Max(0, initial_duration_for_mode - elapsed_time_before_pause)

\* Timer.pause
Pause ==
    IF PauseAllowed
    THEN /\ is_paused' = TRUE
         /\ paused_time' = now
         /\ time_left_seconds' = PausedTimeLeft(now - start_time)
         /\ UNCHANGED <<focus_minutes, rest_minutes, current_mode, is_running,
                        start_time, continued_focus_elapsed_seconds, now>>
         /\ Called("pause", TRUE, FALSE)
    ELSE /\ UNCHANGED <<timer, now>>
         /\ Called("pause", FALSE, FALSE)

\* Timer.resume: its guard
ResumeAllowed == is_running /\ is_paused

\* a resume() that leaves the start time where it was
ResumedStartTimeUnshifted == start_time

\* a resume() that restarts the clock instead of shifting it
ResumedStartTimeRestarted == now

\* Timer.resume: the start time moved forward by the pause duration
ResumedStartTime ==
    LET pause_duration == now - paused_time
    IN  start_time + pause_duration

\* Timer.resume
Resume ==
    IF ResumeAllowed
    THEN /\ start_time' = ResumedStartTime
         /\ is_paused' = FALSE
         /\ UNCHANGED <<focus_minutes, rest_minutes, current_mode,
                        time_left_seconds, is_running, paused_time,
                        continued_focus_elapsed_seconds, now>>
         /\ Called("resume", TRUE, FALSE)
    ELSE /\ UNCHANGED <<timer, now>>
         /\ Called("resume", FALSE, FALSE)

\* a stop() that forgets the continued-focus marker
StopKeepsContinuedFocus ==
    /\ is_running' = FALSE
    /\ is_paused' = FALSE
    /\ UNCHANGED continued_focus_elapsed_seconds
    /\ time_left_seconds' = initial_duration_for_mode
    /\ UNCHANGED <<focus_minutes, rest_minutes, current_mode, start_time,
                   paused_time, now>>
    /\ Called("stop", TRUE, FALSE)

\* a stop() that forgets to clear is_paused
StopLeavesPaused ==
    /\ is_running' = FALSE
    /\ UNCHANGED is_paused
    /\ continued_focus_elapsed_seconds' = 0
    /\ time_left_seconds' = initial_duration_for_mode
    /\ UNCHANGED <<focus_minutes, rest_minutes, current_mode, start_time,
                   paused_time, now>>
    /\ Called("stop", TRUE, FALSE)

\* a stop() that also goes back to focus mode
StopResetsMode ==
    /\ is_running' = FALSE
    /\ is_paused' = FALSE
    /\ continued_focus_elapsed_seconds' = 0
    /\ current_mode' = "focus"
    /\ time_left_seconds' = focus_minutes
    /\ UNCHANGED <<focus_minutes, rest_minutes, start_time, paused_time, now>>
    /\ Called("stop", TRUE, FALSE)

\* a stop() that leaves the time left where the countdown was
StopKeepsTimeLeft ==
    /\ is_running' = FALSE
    /\ is_paused' = FALSE
    /\ continued_focus_elapsed_seconds' = 0
    /\ UNCHANGED time_left_seconds
    /\ UNCHANGED <<focus_minutes, rest_minutes, current_mode, start_time,
                   paused_time, now>>
    /\ Called("stop", TRUE, FALSE)

\* Timer.stop
Stop ==
    /\ is_running' = FALSE
    /\ is_paused' = FALSE
    /\ continued_focus_elapsed_seconds' = 0
    /\ time_left_seconds' = initial_duration_for_mode
    /\ UNCHANGED <<focus_minutes, rest_minutes, current_mode, start_time,
                   paused_time, now>>
    /\ Called("stop", TRUE, FALSE)

\* a tick() that forgets the paused half of its guard
TickSkipsOnlyWhenStopped == ~is_running

\* Timer.tick: the early return
TickSkips == ~is_running \/ is_paused

\* a count-up tick() that keeps whole seconds, as the countdown does
CountUpTimeWholeSeconds(elapsed_time) == Quanta(IntSeconds(elapsed_time))

\* Timer.tick, continued focus: the time shown counts up
CountUpTime(elapsed_time) == elapsed_time

\* a countdown tick() that takes abs() where the code takes max(0, .)
CountDownTimeLeftAbs(elapsed_time) ==
    LET current_time_left == initial_duration_for_mode - elapsed_time
        whole == IntSeconds(current_time_left)
    IN  Quanta(IF whole >= 0 THEN whole ELSE -whole)

\* a countdown tick() that forgets int()
CountDownTimeLeftExact(elapsed_time) ==
    Max(0, initial_duration_for_mode - elapsed_time)

\* Timer.tick, countdown: max(0, int(initial - elapsed)), a whole number of
\* seconds
CountDownTimeLeft(elapsed_time) ==
    LET current_time_left == initial_duration_for_mode - elapsed_time
    IN  Quanta(Max(0, IntSeconds(current_time_left)))

\* a tick() that reports the end with a whole second still left
TimeIsUpWithASecondLeft(left) == left <= Quanta(1)

\* a tick() that waits for a negative time left, which max(0, .) never gives
TimeIsUpWhenNegative(left) == left < 0

\* Timer.tick, countdown: the value returned
TimeIsUp(left) == left = 0

\* Timer.tick
Tick ==
    IF TickSkips
    THEN /\ UNCHANGED <<timer, now>>
         /\ Called("tick", FALSE, FALSE)
    ELSE LET elapsed_time == now - start_time
         IN  /\ IF continued_focus_elapsed_seconds > 0
                THEN /\ time_left_seconds' = CountUpTime(elapsed_time)
                     /\ Called("tick", TRUE, FALSE)
                ELSE /\ time_left_seconds' = CountDownTimeLeft(elapsed_time)
                     /\ Called("tick", TRUE,
                               TimeIsUp(CountDownTimeLeft(elapsed_time)))
             /\ UNCHANGED <<focus_minutes, rest_minutes, current_mode,
                            is_running, is_paused, start_time, paused_time,
                            continued_focus_elapsed_seconds, now>>

\* a switch_mode() that loads the duration of the mode it leaves
SwitchModeOldDuration ==
    /\ IF current_mode = "focus"
       THEN /\ current_mode' = "rest"
            /\ time_left_seconds' = focus_minutes
       ELSE /\ current_mode' = "focus"
            /\ time_left_seconds' = rest_minutes
    /\ is_running' = FALSE
    /\ is_paused' = FALSE
    /\ continued_focus_elapsed_seconds' = 0
    /\ UNCHANGED <<focus_minutes, rest_minutes, start_time, paused_time, now>>
    /\ Called("switch_mode", TRUE, FALSE)

\* Timer.switch_mode
SwitchMode ==
    /\ IF current_mode = "focus"
       THEN /\ current_mode' = "rest"
            /\ time_left_seconds' = rest_minutes
       ELSE /\ current_mode' = "focus"
            /\ time_left_seconds' = focus_minutes
    /\ is_running' = FALSE
    /\ is_paused' = FALSE
    /\ continued_focus_elapsed_seconds' = 0
    /\ UNCHANGED <<focus_minutes, rest_minutes, start_time, paused_time, now>>
    /\ Called("switch_mode", TRUE, FALSE)

\* a start_continue_focus() that does not look at the time left
ContinueFocusAllowedAnyTime ==
    /\ current_mode = "focus"
    /\ continued_focus_elapsed_seconds = 0

\* Timer.start_continue_focus: its guard
ContinueFocusAllowed ==
    /\ current_mode = "focus"
    /\ time_left_seconds = 0
    /\ continued_focus_elapsed_seconds = 0

\* a start_continue_focus() that keeps the old start time
ContinueFocusStartTimeKept == start_time

\* Timer.start_continue_focus: the start time is reset to the clock
ContinueFocusStartTime == now

\* Timer.start_continue_focus; the other branch only prints a warning
StartContinueFocus ==
    IF ContinueFocusAllowed
    THEN /\ is_running' = TRUE
         /\ is_paused' = FALSE
         /\ start_time' = ContinueFocusStartTime
         /\ continued_focus_elapsed_seconds' = 1
         /\ time_left_seconds' = 0
         /\ UNCHANGED <<focus_minutes, rest_minutes, current_mode,
                        paused_time, now>>
         /\ Called("start_continue_focus", TRUE, FALSE)
    ELSE /\ UNCHANGED <<timer, now>>
         /\ Called("start_continue_focus", FALSE, FALSE)

Next ==
    \/ Sleep
    \/ Start
    \/ Pause
    \/ Resume
    \/ Stop
    \/ Tick
    \/ SwitchMode
    \/ StartContinueFocus

Spec == Init /\ [][Next]_vars

\* ---------------------------------------------------------------------
\* Construction.  Before Timer(focus, rest) has returned there is no Timer:
\* current_mode is "none" and the other fields hold nothing of interest.
\* ---------------------------------------------------------------------

NoTimer ==
    /\ focus_minutes = 0
    /\ rest_minutes = 0
    /\ current_mode = "none"
    /\ time_left_seconds = 0
    /\ is_running = FALSE
    /\ is_paused = FALSE
    /\ start_time = 0
    /\ paused_time = 0
    /\ continued_focus_elapsed_seconds = 0

ConstructInit ==
    /\ NoTimer
    /\ now \in 0..MaxStep
    /\ op = "none"
    /\ acted = FALSE
    /\ returned = FALSE
    /\ pre_paused = FALSE
    /\ finished_ticks = 0
    /\ unpaused = 0
    /\ ctor = [focus |-> 0, rest |-> 0, raised |-> "none"]
    /\ StatsIdle
    /\ SettingsIdle
    /\ DriverIdle

\* a constructor that rejects only when both durations are bad
InvalidDurationsBoth(focus, rest) == focus <= 0 /\ rest <= 0

\* Timer.__init__: the check that raises ValueError
InvalidDurations(focus, rest) == focus <= 0 \/ rest <= 0

\* a constructor that loads the rest duration
ConstructedTimeLeftOfRest(focus, rest) == rest

\* Timer.__init__: time_left_seconds = focus_minutes * 60
ConstructedTimeLeft(focus, rest) == focus

\* Timer(focus, rest), called while the caller holds no Timer
Construct ==
    /\ current_mode = "none"
    /\ \E focus \in (0 - MaxInvalid)..MaxFocus,
          rest \in (0 - MaxInvalid)..MaxRest :
          IF InvalidDurations(focus, rest)
          THEN /\ ctor' = [focus |-> focus, rest |-> rest,
                           raised |-> "ValueError"]
               /\ UNCHANGED timer
               /\ acted' = FALSE
          ELSE /\ ctor' = [focus |-> focus, rest |-> rest,
                           raised |-> "none"]
               /\ focus_minutes' = focus
               /\ rest_minutes' = rest
               /\ current_mode' = "focus"
               /\ time_left_seconds' = ConstructedTimeLeft(focus, rest)
               /\ is_running' = FALSE
               /\ is_paused' = FALSE
               /\ start_time' = 0
               /\ paused_time' = 0
               /\ continued_focus_elapsed_seconds' = 0
               /\ acted' = TRUE
    /\ op' = "init"
    /\ returned' = FALSE
    /\ pre_paused' = FALSE
    /\ finished_ticks' = 0
    /\ unpaused' = 0
    /\ UNCHANGED <<now, stats, settings, driver>>

\* the methods are called on a Timer that exists
UseTimer == current_mode # "none" /\ Next

ConstructNext ==
    \/ Construct
    \/ UseTimer

SpecConstruct == ConstructInit /\ [][ConstructNext]_vars

\* ---------------------------------------------------------------------
\* The stats store of stats.py.  The file holds nothing ("missing"), text
\* that cannot be read or parsed ("corrupt"), JSON that is not an object
\* ("not_dict") or an object ("dict") with a "date" (a day, 0 when the key
\* is absent or names an earlier day) and, when has_seconds, a
\* "time_spent_focus_seconds".  Amounts passed in are floats, in quanta.
\* ---------------------------------------------------------------------

\* load_stats: default_stats
DefaultStats(day) == [date |-> day, seconds |-> 0]

\* a load_stats that does not look at the stored date
LoadStatsAnyDate(file, day) ==
    IF file.kind = "missing" THEN DefaultStats(day)
    ELSE IF file.kind = "corrupt" THEN DefaultStats(day)
    ELSE IF file.kind # "dict" THEN DefaultStats(day)
    ELSE [date |-> day,
          seconds |-> IF file.has_seconds THEN file.seconds ELSE 0]

\* load_stats
LoadStats(file, day) ==
    IF file.kind = "missing" THEN DefaultStats(day)
    ELSE IF file.kind = "corrupt" THEN DefaultStats(day)
    ELSE IF file.kind # "dict" \/ file.date # day THEN DefaultStats(day)
    ELSE [date |-> day,
          seconds |-> IF file.has_seconds THEN file.seconds ELSE 0]

\* a save that replaces today's total by the amount
SavedTotalReplaced(old_total, seconds_spent_in_focus) ==
    seconds_spent_in_focus

\* save_daily_focus_time: the total written
SavedTotal(old_total, seconds_spent_in_focus) ==
    old_total + seconds_spent_in_focus

\* the record of the last two saves that wrote the file in a row
SavedInARow(before, amount) ==
    [before2 |-> IF stats_hist.args = <<>> THEN before
                 ELSE stats_hist.before1,
     before1 |-> before,
     args |-> IF stats_hist.args = <<>> THEN <<amount>>
              ELSE <<stats_hist.args[Len(stats_hist.args)], amount>>]

NothingSavedInARow == [before2 |-> 0, before1 |-> 0, args |-> <<>>]

StatsInit ==
    /\ NoTimer
    /\ now = 0
    /\ op = "none"
    /\ acted = FALSE
    /\ returned = FALSE
    /\ pre_paused = FALSE
    /\ finished_ticks = 0
    /\ unpaused = 0
    /\ ctor = [focus |-> 0, rest |-> 0, raised |-> "none"]
    /\ today \in 1..MaxDay
    /\ stats_file \in
          {[kind |-> k, date |-> 0, has_seconds |-> FALSE, seconds |-> 0] :
               k \in {"missing", "corrupt", "not_dict"}}
          \cup {[kind |-> "dict", date |-> d, has_seconds |-> FALSE,
                  seconds |-> 0] : d \in 0..MaxDay}
          \cup {[kind |-> "dict", date |-> d, has_seconds |-> TRUE,
                  seconds |-> n] : d \in 0..MaxDay, n \in 0..MaxTotal}
    /\ stats_loaded = [date |-> 0, seconds |-> 0]
    /\ stats_call = [name |-> "none", arg |-> 0, wrote |-> FALSE,
                     file_before |-> stats_file]
    /\ stats_hist = NothingSavedInARow
    /\ SettingsIdle
    /\ DriverIdle

\* load_stats()
LoadStatsCall ==
    /\ stats_loaded' = LoadStats(stats_file, today)
    /\ stats_call' = [name |-> "load_stats", arg |-> 0, wrote |-> FALSE,
                      file_before |-> stats_file]
    /\ UNCHANGED <<stats_file, today, stats_hist>>
    /\ UNCHANGED <<timer, now, op, acted, returned, pre_paused,
                   finished_ticks, unpaused, ctor, settings, driver>>

\* save_daily_focus_time(amount) on the store: what it leaves at
\* STATS_FILE_PATH; open(.., "w") may fail with IOError, which is caught
RecordFocusTime(amount, writable) ==
    LET seconds_spent_in_focus == IntSeconds(amount)
        loaded == LoadStats(stats_file, today)
        total == SavedTotal(loaded.seconds, seconds_spent_in_focus)
    IN  /\ IF seconds_spent_in_focus < 0
           THEN /\ UNCHANGED stats_file
                /\ stats_call' = [name |-> "save_daily_focus_time",
                                  arg |-> amount, wrote |-> FALSE,
                                  file_before |-> stats_file]
                /\ stats_hist' = NothingSavedInARow
           ELSE IF writable
           THEN /\ stats_file' = [kind |-> "dict", date |-> today,
                                  has_seconds |-> TRUE,
                                  seconds |-> total]
                /\ stats_call' = [name |-> "save_daily_focus_time",
                                  arg |-> amount, wrote |-> TRUE,
                                  file_before |-> stats_file]
                /\ stats_hist' = SavedInARow(loaded.seconds, amount)
           ELSE /\ UNCHANGED stats_file
                /\ stats_call' = [name |-> "save_daily_focus_time",
                                  arg |-> amount, wrote |-> FALSE,
                                  file_before |-> stats_file]
                /\ stats_hist' = NothingSavedInARow
        /\ UNCHANGED <<today, stats_loaded>>

\* save_daily_focus_time(amount), for any amount a caller may pass
SaveDailyFocusTime ==
    \E amount \in (0 - Quanta(MaxInvalid))..MaxAmount, writable \in BOOLEAN :
        /\ SavedTotal(LoadStats(stats_file, today).seconds,
                      IntSeconds(amount)) <= MaxTotal
        /\ RecordFocusTime(amount, writable)
        /\ UNCHANGED <<timer, now, op, acted, returned, pre_paused,
                       finished_ticks, unpaused, ctor, settings, driver>>

\* midnight passes: datetime.now() reports the next day
NewDay ==
    /\ today < MaxDay
    /\ today' = today + 1
    /\ stats_call' = [name |-> "new_day", arg |-> 0, wrote |-> FALSE,
                      file_before |-> stats_file]
    /\ stats_hist' = NothingSavedInARow
    /\ UNCHANGED <<stats_file, stats_loaded>>
    /\ UNCHANGED <<timer, now, op, acted, returned, pre_paused,
                   finished_ticks, unpaused, ctor, settings, driver>>

StatsNext ==
    \/ LoadStatsCall
    \/ SaveDailyFocusTime
    \/ NewDay

SpecStats == StatsInit /\ [][StatsNext]_vars

\* ---------------------------------------------------------------------
\* The settings store of settings.py.  A settings dict is a function from
\* the keys it defines to their values.  The file is absent ("missing"),
\* cannot be opened ("unreadable": open() raises IOError), holds bytes that
\* are not text in the locale's encoding ("undecodable": read() raises
\* UnicodeDecodeError, a ValueError), holds text that is not JSON
\* ("corrupt": JSONDecodeError), holds JSON that is not an object
\* ("not_object") or holds a JSON object ("object"), whose text is the set
\* of its key/value members.
\* ---------------------------------------------------------------------

\* settings.py: DEFAULT_SETTINGS
DEFAULT_SETTINGS ==
    [focus_minutes |-> 25, focus_minutes_divisor |-> 5,
     daily_goal_minutes |-> 450]

\* the keys callers store: the default ones and one that is not a default
SettingsKeys == DOMAIN DEFAULT_SETTINGS \cup {"rest_minutes"}

\* the settings dicts callers save: any of the keys, with small values
SettingsDicts ==
    UNION {[keys -> 1..MaxSetting] : keys \in SUBSET SettingsKeys}

\* json.dump of a dict: the members of the JSON object written
JsonDump(dict) == {<<key, dict[key]>> : key \in DOMAIN dict}

\* json.load of the text of a JSON object: the dict of its members
JsonLoad(text) ==
    [key \in {member[1] : member \in text} |->
        (CHOOSE member \in text : member[1] = key)[2]]

\* a load_settings that lets the defaults replace what the file holds
WithDefaultsOverriding(dict) ==
    [key \in DOMAIN dict \cup DOMAIN DEFAULT_SETTINGS |->
        IF key \in DOMAIN DEFAULT_SETTINGS THEN DEFAULT_SETTINGS[key]
        ELSE dict[key]]

\* a load_settings that keeps the default keys only
WithDefaultsOnly(dict) ==
    [key \in DOMAIN DEFAULT_SETTINGS |->
        IF key \in DOMAIN dict THEN dict[key] ELSE DEFAULT_SETTINGS[key]]

\* load_settings: "Ensure default keys are present"
WithDefaults(dict) ==
    [key \in DOMAIN dict \cup DOMAIN DEFAULT_SETTINGS |->
        IF key \in DOMAIN dict THEN dict[key] ELSE DEFAULT_SETTINGS[key]]

\* load_settings: what it returns, or the exception that leaves it.  Only
\* IOError and json.JSONDecodeError are caught.
LoadSettings(file) ==
    IF file.kind = "missing"
    THEN [raised |-> "none", value |-> DEFAULT_SETTINGS]
    ELSE IF file.kind = "unreadable"
    THEN [raised |-> "none", value |-> DEFAULT_SETTINGS]
    ELSE IF file.kind = "undecodable"
    THEN [raised |-> "UnicodeDecodeError", value |-> EmptyDict]
    ELSE IF file.kind = "corrupt"
    THEN [raised |-> "none", value |-> DEFAULT_SETTINGS]
    ELSE IF file.kind = "not_object"
    THEN [raised |-> "TypeError", value |-> EmptyDict]
    ELSE [raised |-> "none", value |-> WithDefaults(JsonLoad(file.text))]

SettingsInit ==
    /\ NoTimer
    /\ now = 0
    /\ op = "none"
    /\ acted = FALSE
    /\ returned = FALSE
    /\ pre_paused = FALSE
    /\ finished_ticks = 0
    /\ unpaused = 0
    /\ ctor = [focus |-> 0, rest |-> 0, raised |-> "none"]
    /\ StatsIdle
    /\ settings_file \in
          {[kind |-> k, text |-> {}] :
               k \in {"missing", "unreadable", "undecodable", "corrupt",
                      "not_object"}}
          \cup {[kind |-> "object", text |-> JsonDump(d)] :
                   d \in SettingsDicts}
    /\ settings_loaded = [raised |-> "none", value |-> EmptyDict]
    /\ settings_call = [name |-> "none", arg |-> EmptyDict, wrote |-> FALSE,
                        after_save |-> FALSE, saved |-> EmptyDict]
    /\ DriverIdle

\* load_settings()
LoadSettingsCall ==
    /\ settings_loaded' = LoadSettings(settings_file)
    /\ settings_call' = [name |-> "load_settings", arg |-> EmptyDict,
                         wrote |-> FALSE,
                         after_save |-> settings_call.name = "save_settings"
                                            /\ settings_call.wrote,
                         saved |-> settings_call.arg]
    /\ UNCHANGED settings_file
    /\ UNCHANGED <<timer, now, op, acted, returned, pre_paused,
                   finished_ticks, unpaused, ctor, stats, driver>>

\* save_settings(s); open(.., "w") may fail with IOError, which is caught
SaveSettings ==
    \E s \in SettingsDicts, writable \in BOOLEAN :
        /\ settings_file' = IF writable
                            THEN [kind |-> "object", text |-> JsonDump(s)]
                            ELSE settings_file
        /\ settings_call' = [name |-> "save_settings",
                             arg |-> IF writable THEN s ELSE EmptyDict,
                             wrote |-> writable,
                             after_save |-> FALSE, saved |-> EmptyDict]
        /\ UNCHANGED settings_loaded
        /\ UNCHANGED <<timer, now, op, acted, returned, pre_paused,
                       finished_ticks, unpaused, ctor, stats, driver>>

SettingsNext ==
    \/ LoadSettingsCall
    \/ SaveSettings

SpecSettings == SettingsInit /\ [][SettingsNext]_vars

\* ---------------------------------------------------------------------
\* One segment, driven as the loop of main.py drives it: start() once, then
\* ticks with sleeps between them while the timer runs, and pause() /
\* resume() pairs from the interrupt handler.  The clock is bounded by
\* MaxTime, so a sleep that is not counted (timer paused) is taken only
\* while the clock keeps room for the rest of the countdown.
\* ---------------------------------------------------------------------

\* the first start() of the session
FirstStart == op = "init" /\ Start

\* time passes
SegmentSleep ==
    /\ op # "init"
    /\ Sleep
    /\ (is_paused /\ continued_focus_elapsed_seconds = 0)
           => (now' + time_left_seconds <= MaxTime)

SegmentTick == op # "init" /\ Tick

SegmentPause == op # "init" /\ Pause

SegmentResume == op # "init" /\ Resume

SegmentContinueFocus == op # "init" /\ StartContinueFocus

SegmentNext ==
    \/ FirstStart
    \/ SegmentSleep
    \/ SegmentTick
    \/ SegmentPause
    \/ SegmentResume
    \/ SegmentContinueFocus

\* time keeps advancing while the timer runs, tick() keeps being called on
\* the running timer, and every pause() is followed by a resume()
SegmentFairness ==
    /\ SF_vars(SegmentSleep /\ is_running /\ ~is_paused)
    /\ SF_vars(SegmentTick /\ ~TickSkips)
    /\ WF_vars(SegmentResume /\ ResumeAllowed)

SpecSegment == Init /\ [][SegmentNext]_vars /\ SegmentFairness

TypeOK ==
    /\ focus_minutes \in 1..MaxFocus
    /\ rest_minutes \in 1..MaxRest
    /\ current_mode \in {"focus", "rest"}
    /\ time_left_seconds \in 0..Max(Max(MaxFocus, MaxRest), MaxTime)
    /\ is_running \in BOOLEAN
    /\ is_paused \in BOOLEAN
    /\ start_time \in 0..MaxTime
    /\ paused_time \in 0..MaxTime
    /\ continued_focus_elapsed_seconds \in {0, 1}
    /\ now \in 0..MaxTime

\* ---------------------------------------------------------------------
\* The driving loop of main.py: start() and the two interrupt handlers, one
\* statement that touches the Timer, the stats store or the notifier per
\* step, so that a KeyboardInterrupt (Ctrl+C) can arrive between any two of
\* them.  pc names the statement to run next:
\*   "menu"       perform_user_action waits for a command       (53-54)
\*   "start"      _timer_instance.start()                       (117)
\*   "inner"      the test of the inner while, then tick()      (125-126)
\*   "sleep"      time.sleep(1), then the test of time_is_up    (175-177)
\*   "notify"     send_notification(".. session ended!")        (180)
\*   "save"       save_daily_focus_time(focus_minutes * 60)     (185)
\*   "confirm"    click.confirm("Start rest session?")          (187)
\*   "switch"     switch_mode(), time_left_seconds = rest       (189-191)
\*   "start_rest" start()                                       (192)
\*   "continue"   start_continue_focus()                        (195)
\*   "p_pause", "p_input", "p_resume"   the except block        (219-222)
\*   "h_pause" .. "h_start"   handle_keyboard_interrupt         (240-268)
\*   "exited"     an exception or sys.exit left the program
\* A KeyboardInterrupt raised inside the try of start() is caught by its
\* except clause; one raised inside that except clause, or at line 117,
\* leaves this start() and is caught by the start() that called the menu
\* at line 200, when there is one.
\* ---------------------------------------------------------------------

\* the statements inside the try block of start()
TryStatements ==
    {"inner", "sleep", "notify", "save", "confirm", "switch", "start_rest",
     "continue"}

\* the statements of the except block of start() and of
\* handle_keyboard_interrupt
ExceptStatements ==
    {"p_pause", "p_input", "p_resume", "h_pause", "h_save", "h_notify",
     "h_stop", "h_rest", "h_switch", "h_start"}

\* the focus durations a session is begun with (from the settings file or
\* the prompt), in quanta: multiples of the divisor, so that the rest
\* duration focus / 5 is a whole number of quanta; 0 is refused
FocusChoices ==
    {DEFAULT_SETTINGS.focus_minutes_divisor * k : k \in 0..MaxRest}

\* start(): rest_minutes = focus_minutes / focus_minutes_divisor
RestFor(focus) == focus \div DEFAULT_SETTINGS.focus_minutes_divisor

\* main.py waits: time passes and nothing is called on the Timer
Elapse(d) ==
    /\ now + d <= MaxClock
    /\ now' = now + d
    /\ UNCHANGED timer
    /\ Called("sleep", FALSE, FALSE)

\* a statement that calls nothing on the Timer
NoTimerCall ==
    UNCHANGED <<timer, now, op, acted, returned, pre_paused, finished_ticks,
                unpaused, ctor>>

\* the statement that ran and the one to run next
Goes(ran, next) == step' = ran /\ pc' = next

\* send_notification: the exception that leaves it.  It prints, then calls
\* osascript.run, with no try around either, so the exception of a print
\* or of an OS call that fails (UnicodeEncodeError, FileNotFoundError, ..)
\* leaves send_notification as it is.
SendNotificationRaises(delivery) ==
    IF delivery = "failed" THEN "Exception" ELSE "none"

\* send_notification(message), delivered or not
SendNotification(message, delivery) ==
    notify_call' = [message |-> message,
                    raised |-> SendNotificationRaises(delivery)]

\* handle_keyboard_interrupt: int(total_focus_seconds * rest_ratio), with
\* rest_ratio = initial_rest_minutes / initial_focus_minutes.  Both are
\* float operations: when the exact product is a whole number the float
\* product may fall just below it and int() then gives one less (focus 3
\* min, rest 0.6 min, 35 s continued: 215 * (0.6 / 3) = 42.99.., so 42).
\* Arguments in quanta, results in seconds.
NewRestSeconds(total_focus_seconds, rest, focus) ==
    LET exact == (total_focus_seconds * rest) \div (focus * Res)
    IN  IF (total_focus_seconds * rest) % (focus * Res) = 0 /\ exact > 0
        THEN {exact, exact - 1}
        ELSE {exact}

\* main.py starts at the menu, holding no Timer
DriverInit ==
    /\ NoTimer
    /\ now = 0
    /\ op = "none"
    /\ acted = FALSE
    /\ returned = FALSE
    /\ pre_paused = FALSE
    /\ finished_ticks = 0
    /\ unpaused = 0
    /\ ctor = [focus |-> 0, rest |-> 0, raised |-> "none"]
    /\ StatsIdle
    /\ SettingsIdle
    /\ pc = "menu"
    /\ step = "none"
    /\ frames = 0
    /\ time_is_up = FALSE
    /\ initial_focus_minutes = 0
    /\ initial_rest_minutes = 0
    /\ continued_seconds = 0
    /\ focus_saves = 0
    /\ logged = << >>
    /\ notify_call = [message |-> "none", raised |-> "none"]

\* perform_user_action, commands 1 and 2: start() up to line 115
MenuStart ==
    /\ pc = "menu"
    /\ frames < MaxFrames
    /\ \E focus \in FocusChoices :
          IF focus <= 0 \/ RestFor(focus) <= 0
          THEN /\ Goes("MenuStart", "exited")
               /\ NoTimerCall
               /\ UNCHANGED <<frames, initial_focus_minutes,
                              initial_rest_minutes>>
          ELSE /\ Goes("MenuStart", "start")
               /\ frames' = frames + 1
               /\ ctor' = [focus |-> focus, rest |-> RestFor(focus),
                           raised |-> "none"]
               /\ focus_minutes' = focus
               /\ rest_minutes' = RestFor(focus)
               /\ current_mode' = "focus"
               /\ time_left_seconds'
                      = ConstructedTimeLeft(focus, RestFor(focus))
               /\ is_running' = FALSE
               /\ is_paused' = FALSE
               /\ start_time' = 0
               /\ paused_time' = 0
               /\ continued_focus_elapsed_seconds' = 0
               /\ initial_focus_minutes' = focus
               /\ initial_rest_minutes' = RestFor(focus)
               /\ op' = "init"
               /\ acted' = TRUE
               /\ returned' = FALSE
               /\ pre_paused' = FALSE
               /\ finished_ticks' = 0
               /\ unpaused' = 0
               /\ UNCHANGED now
    /\ UNCHANGED <<time_is_up, continued_seconds, focus_saves, logged,
                   notify_call, stats, settings>>

\* perform_user_action, command q: sys.exit(0)
MenuQuit ==
    /\ pc = "menu"
    /\ Goes("MenuQuit", "exited")
    /\ NoTimerCall
    /\ UNCHANGED <<frames, time_is_up, initial_focus_minutes,
                   initial_rest_minutes, continued_seconds, focus_saves,
                   logged, notify_call, stats, settings>>

\* line 117: the focus countdown of the session starts
SessionStart ==
    /\ pc = "start"
    /\ Start
    /\ Goes("SessionStart", "inner")
    /\ focus_saves' = 0
    /\ UNCHANGED <<frames, time_is_up, initial_focus_minutes,
                   initial_rest_minutes, continued_seconds, logged,
                   notify_call>>

\* lines 125-126: the timer runs, tick()
LoopTick ==
    /\ pc = "inner"
    /\ is_running /\ ~is_paused
    /\ Tick
    /\ time_is_up' = returned'
    /\ Goes("LoopTick", "sleep")
    /\ UNCHANGED <<frames, initial_focus_minutes, initial_rest_minutes,
                   continued_seconds, focus_saves, logged, notify_call>>

\* lines 125 and 203-210: the timer does not run; start() returns to the
\* menu that called it when the timer is stopped, and spins when it is
\* paused
LoopLeave ==
    /\ pc = "inner"
    /\ ~(is_running /\ ~is_paused)
    /\ IF ~is_running /\ ~is_paused
       THEN /\ Goes("LoopLeave", "menu")
            /\ frames' = frames - 1
       ELSE /\ Goes("LoopLeave", "inner")
            /\ UNCHANGED frames
    /\ NoTimerCall
    /\ UNCHANGED <<time_is_up, initial_focus_minutes, initial_rest_minutes,
                   continued_seconds, focus_saves, logged, notify_call,
                   stats, settings>>

\* lines 175-177: time.sleep(1), then the test of time_is_up
LoopSleep ==
    /\ pc = "sleep"
    /\ Elapse(Quanta(1))
    /\ Goes("LoopSleep", IF time_is_up THEN "notify" ELSE "inner")
    /\ UNCHANGED <<frames, time_is_up, initial_focus_minutes,
                   initial_rest_minutes, continued_seconds, focus_saves,
                   logged, notify_call>>

\* lines 180-183 and 200: the end of a countdown is announced; an exception
\* of send_notification is caught nowhere; after a rest the menu opens
\* inside this start()
NotifyEnd ==
    /\ pc = "notify"
    /\ \E delivery \in {"delivered", "failed"} :
          /\ SendNotification(current_mode, delivery)
          /\ Goes("NotifyEnd",
                  IF SendNotificationRaises(delivery) # "none"
                  THEN "exited"
                  ELSE IF current_mode = "focus" THEN "save" ELSE "menu")
    /\ NoTimerCall
    /\ UNCHANGED <<frames, time_is_up, initial_focus_minutes,
                   initial_rest_minutes, continued_seconds, focus_saves,
                   logged, stats, settings>>

\* line 185: save_daily_focus_time(_timer_instance.focus_minutes * 60)
SaveFocus ==
    /\ pc = "save"
    /\ \E writable \in BOOLEAN : RecordFocusTime(focus_minutes, writable)
    /\ focus_saves' = IF focus_saves < 2 THEN focus_saves + 1 ELSE 2
    /\ Goes("SaveFocus", "confirm")
    /\ NoTimerCall
    /\ UNCHANGED <<frames, time_is_up, initial_focus_minutes,
                   initial_rest_minutes, continued_seconds, logged,
                   notify_call, settings>>

\* line 187: the user answers; Ctrl+C at the prompt leaves click.confirm as
\* click.Abort, which nothing catches
Confirm ==
    /\ pc = "confirm"
    /\ \E answer \in {"yes", "no", "abort"} :
          Goes("Confirm", IF answer = "yes" THEN "switch"
                          ELSE IF answer = "no" THEN "continue"
                          ELSE "exited")
    /\ NoTimerCall
    /\ UNCHANGED <<frames, time_is_up, initial_focus_minutes,
                   initial_rest_minutes, continued_seconds, focus_saves,
                   logged, notify_call, stats, settings>>

\* lines 189-191: switch_mode(); the assignment of line 191 stores the
\* value switch_mode() has just stored
SwitchToRest ==
    /\ pc = "switch"
    /\ SwitchMode
    /\ Goes("SwitchToRest", "start_rest")
    /\ UNCHANGED <<frames, time_is_up, initial_focus_minutes,
                   initial_rest_minutes, continued_seconds, focus_saves,
                   logged, notify_call>>

\* line 192: the rest countdown starts
StartRest ==
    /\ pc = "start_rest"
    /\ Start
    /\ Goes("StartRest", "inner")
    /\ UNCHANGED <<frames, time_is_up, initial_focus_minutes,
                   initial_rest_minutes, continued_seconds, focus_saves,
                   logged, notify_call>>

\* line 195: start_continue_focus()
ContinueFocus ==
    /\ pc = "continue"
    /\ StartContinueFocus
    /\ Goes("ContinueFocus", "inner")
    /\ UNCHANGED <<frames, time_is_up, initial_focus_minutes,
                   initial_rest_minutes, continued_seconds, focus_saves,
                   logged, notify_call>>

\* where a KeyboardInterrupt that is caught goes: lines 214-218
Caught ==
    IF continued_focus_elapsed_seconds > 0 THEN "h_pause" ELSE "p_pause"

\* Ctrl+C: a KeyboardInterrupt before the statement pc names (part of the
\* second into a sleep).  In the try block, or in the menu opened at line
\* 200, the except clause of this start() catches it; elsewhere it leaves
\* this start() and the one below on the stack catches it, or nothing does.
Interrupt ==
    /\ pc \notin {"none", "exited"}
    /\ \E d \in 0..(Res - 1) :
          /\ d > 0 => pc = "sleep"
          /\ Elapse(d)
    /\ IF pc \in TryStatements \/ (pc = "menu" /\ frames >= 1)
       THEN /\ Goes("Interrupt", Caught)
            /\ UNCHANGED frames
       ELSE IF pc \in ExceptStatements \cup {"start"} /\ frames >= 2
       THEN /\ Goes("Interrupt", Caught)
            /\ frames' = frames - 1
       ELSE /\ Goes("Interrupt", "exited")
            /\ UNCHANGED frames
    /\ UNCHANGED <<time_is_up, initial_focus_minutes, initial_rest_minutes,
                   continued_seconds, focus_saves, logged, notify_call>>

\* line 219: pause()
PauseTimer ==
    /\ pc = "p_pause"
    /\ Pause
    /\ Goes("PauseTimer", "p_input")
    /\ UNCHANGED <<frames, time_is_up, initial_focus_minutes,
                   initial_rest_minutes, continued_seconds, focus_saves,
                   logged, notify_call>>

\* line 221: input("Press Enter to resume"), answered after a while
PressEnter ==
    /\ pc = "p_input"
    /\ \E d \in 0..MaxStep : Elapse(d)
    /\ Goes("PressEnter", "p_resume")
    /\ UNCHANGED <<frames, time_is_up, initial_focus_minutes,
                   initial_rest_minutes, continued_seconds, focus_saves,
                   logged, notify_call>>

\* line 222: resume(); the outer loop goes round
ResumeTimer ==
    /\ pc = "p_resume"
    /\ Resume
    /\ Goes("ResumeTimer", "inner")
    /\ UNCHANGED <<frames, time_is_up, initial_focus_minutes,
                   initial_rest_minutes, continued_seconds, focus_saves,
                   logged, notify_call>>

\* lines 240-243: pause(), continued_seconds = int(time_left_seconds)
HandlerPause ==
    /\ pc = "h_pause"
    /\ Pause
    /\ continued_seconds' = IntSeconds(time_left_seconds')
    /\ logged' = << >>
    /\ Goes("HandlerPause",
            IF IntSeconds(time_left_seconds') > 0 THEN "h_save"
            ELSE "h_stop")
    /\ UNCHANGED <<frames, time_is_up, initial_focus_minutes,
                   initial_rest_minutes, focus_saves, notify_call>>

\* line 244: save_daily_focus_time(continued_seconds)
HandlerSave ==
    /\ pc = "h_save"
    /\ \E writable \in BOOLEAN :
          RecordFocusTime(Quanta(continued_seconds), writable)
    /\ logged' = Append(logged, continued_seconds)
    /\ Goes("HandlerSave", "h_notify")
    /\ NoTimerCall
    /\ UNCHANGED <<frames, time_is_up, initial_focus_minutes,
                   initial_rest_minutes, continued_seconds, focus_saves,
                   notify_call, settings>>

\* line 245: send_notification("Continued focus stopped.")
HandlerNotify ==
    /\ pc = "h_notify"
    /\ \E delivery \in {"delivered", "failed"} :
          /\ SendNotification("continued", delivery)
          /\ Goes("HandlerNotify",
                  IF SendNotificationRaises(delivery) # "none"
                  THEN "exited" ELSE "h_stop")
    /\ NoTimerCall
    /\ UNCHANGED <<frames, time_is_up, initial_focus_minutes,
                   initial_rest_minutes, continued_seconds, focus_saves,
                   logged, stats, settings>>

\* lines 248-249: stop(); current_mode is "focus" already
HandlerStop ==
    /\ pc = "h_stop"
    /\ Stop
    /\ Goes("HandlerStop", "h_rest")
    /\ UNCHANGED <<frames, time_is_up, initial_focus_minutes,
                   initial_rest_minutes, continued_seconds, focus_saves,
                   logged, notify_call>>

\* lines 252-265: rest_minutes = new_rest_seconds / 60
HandlerRest ==
    /\ pc = "h_rest"
    /\ \E new_rest_seconds \in
              NewRestSeconds(initial_focus_minutes
                                 + Quanta(continued_seconds),
                             initial_rest_minutes, initial_focus_minutes) :
          rest_minutes' = Quanta(new_rest_seconds)
    /\ UNCHANGED <<focus_minutes, current_mode, time_left_seconds,
                   is_running, is_paused, start_time, paused_time,
                   continued_focus_elapsed_seconds, now>>
    /\ Called("rest_minutes", TRUE, FALSE)
    /\ Goes("HandlerRest", "h_switch")
    /\ UNCHANGED <<frames, time_is_up, initial_focus_minutes,
                   initial_rest_minutes, continued_seconds, focus_saves,
                   logged, notify_call>>

\* lines 266-267: switch_mode(); int(rest_minutes * 60) is the value
\* switch_mode() has just stored
HandlerSwitch ==
    /\ pc = "h_switch"
    /\ SwitchMode
    /\ Goes("HandlerSwitch", "h_start")
    /\ UNCHANGED <<frames, time_is_up, initial_focus_minutes,
                   initial_rest_minutes, continued_seconds, focus_saves,
                   logged, notify_call>>

\* line 268: the rest countdown starts
HandlerStart ==
    /\ pc = "h_start"
    /\ Start
    /\ Goes("HandlerStart", "inner")
    /\ UNCHANGED <<frames, time_is_up, initial_focus_minutes,
                   initial_rest_minutes, continued_seconds, focus_saves,
                   logged, notify_call>>

DriverNext ==
    \/ MenuStart
    \/ MenuQuit
    \/ SessionStart
    \/ LoopTick
    \/ LoopLeave
    \/ LoopSleep
    \/ NotifyEnd
    \/ SaveFocus
    \/ Confirm
    \/ SwitchToRest
    \/ StartRest
    \/ ContinueFocus
    \/ Interrupt
    \/ PauseTimer
    \/ PressEnter
    \/ ResumeTimer
    \/ HandlerPause
    \/ HandlerSave
    \/ HandlerNotify
    \/ HandlerStop
    \/ HandlerRest
    \/ HandlerSwitch
    \/ HandlerStart

SpecDriver == DriverInit /\ [][DriverNext]_vars

\* ---------------------------------------------------------------------
\* Properties of the Timer
\* ---------------------------------------------------------------------

countdown == is_running /\ ~is_paused /\ continued_focus_elapsed_seconds = 0
countup == is_running /\ ~is_paused /\ continued_focus_elapsed_seconds > 0

\* C1: a tick() made when the timer is not running or is paused returns
\* "not finished" and changes no field of the timer; and as long as the
\* timer stays paused (through any sleep, tick or repeated pause) remaining
\* keeps the value the pause froze.
C1_TickIdleOrPausedIsNoOp ==
    [][ /\ (op' = "tick" /\ (~is_running \/ is_paused))
            => (UNCHANGED timer /\ returned' = FALSE)
        /\ (is_paused /\ is_paused')
            => (time_left_seconds' = time_left_seconds) ]_vars

\* C1 happens: a tick on a paused countdown, made after the clock moved on
C1_Witness ==
    /\ op = "tick"
    /\ is_running /\ is_paused
    /\ now > paused_time
    /\ time_left_seconds > 0
    /\ ~returned

\* floor(x) for x seconds held as q quanta, in seconds
FloorSeconds(q) == q \div Res

\* the preconditions of startContinuedFocus() as the specification words them
focus_is_over ==
    /\ current_mode = "focus"
    /\ time_left_seconds = 0
    /\ continued_focus_elapsed_seconds = 0

\* C2: a countdown tick() sets remaining to max(0, floor(fullDuration -
\* elapsedSinceAnchor)) and returns "finished" exactly when the remaining it
\* has just set is 0.
C2_CountdownTick ==
    [][ (op' = "tick" /\ countdown) =>
          /\ time_left_seconds' =
                 Quanta(Max(0, FloorSeconds(initial_duration_for_mode
                                              - (now - start_time))))
          /\ returned' <=> (time_left_seconds' = 0) ]_vars

\* C2 happens: a countdown tick, made once the full duration has elapsed,
\* that reports "finished" with remaining 0
C2_Witness ==
    /\ op = "tick" /\ acted
    /\ countdown
    /\ returned
    /\ time_left_seconds = 0
    /\ now - start_time >= initial_duration_for_mode

\* C3 (as claimed): with continued focus inactive, no tick(), pause() or
\* resume() ever increases remaining, and remaining is never below 0.
C3_RemainingNeverIncreases ==
    [][ (op' \in {"tick", "pause", "resume"}
         /\ continued_focus_elapsed_seconds = 0)
        => (time_left_seconds' <= time_left_seconds
            /\ time_left_seconds' >= 0) ]_vars

\* C4 (as claimed): once a resume() has ended a pause that froze remaining
\* at v, any further positive amount of time passing leaves remaining
\* strictly below v in countdown and strictly above v in count-up.
C4_RemainingMovesAfterResume ==
    [][ (op = "resume" /\ acted /\ op' = "sleep") =>
          IF continued_focus_elapsed_seconds = 0
          THEN time_left_seconds' < time_left_seconds
          ELSE time_left_seconds' > time_left_seconds ]_vars

\* C5: pause() on a running, unpaused timer sets paused, keeps running,
\* records the clock as the pause timestamp and freezes remaining at
\* max(0, fullDuration - elapsed) in countdown, at elapsed in count-up.
C5_PauseFreezes ==
    [][ (op' = "pause" /\ is_running /\ ~is_paused) =>
          /\ is_paused' /\ is_running'
          /\ paused_time' = now
          /\ time_left_seconds' =
                 IF continued_focus_elapsed_seconds = 0
                 THEN Max(0, initial_duration_for_mode - (now - start_time))
                 ELSE now - start_time ]_vars

\* C5 happens: a countdown paused half-way through a second
C5_Witness ==
    /\ op = "pause" /\ acted
    /\ is_running /\ is_paused
    /\ continued_focus_elapsed_seconds = 0
    /\ paused_time = now
    /\ time_left_seconds > 0
    /\ time_left_seconds < initial_duration_for_mode
    /\ time_left_seconds % Res # 0

\* C6: resume() on a paused timer clears paused, leaves running, mode and
\* remaining alone and moves the anchor forward by now - pauseTime; on a
\* timer that is not paused it changes nothing.
C6_Resume ==
    [][ (op' = "resume") =>
          IF is_paused
          THEN /\ ~is_paused'
               /\ UNCHANGED <<is_running, current_mode, time_left_seconds>>
               /\ start_time' = start_time + (now - paused_time)
          ELSE UNCHANGED timer ]_vars

\* C6 happens: a resume after a pause of positive length
C6_Witness ==
    /\ op = "resume" /\ acted /\ pre_paused
    /\ is_running /\ ~is_paused
    /\ now > paused_time
    /\ start_time > 0

\* C7: pause() on a timer that is not running or is already paused changes
\* no field: the pause timestamp and the frozen remaining stay as the first
\* pause() left them.
C7_PauseElsewhereIsNoOp ==
    [][ (op' = "pause" /\ (~is_running \/ is_paused)) =>
          (UNCHANGED timer /\ ~acted') ]_vars

\* C7 happens: a second pause(), made later than the first
C7_Witness ==
    /\ op = "pause" /\ ~acted /\ pre_paused
    /\ is_running /\ is_paused
    /\ now > paused_time

\* C8: startContinuedFocus() called when mode = Focus, remaining = 0 and
\* continued focus inactive do not all hold changes no field; continued
\* focus becomes active only from a state with mode = Focus, remaining = 0.
C8_ContinueFocusGuard ==
    [][ /\ (op' = "start_continue_focus" /\ ~focus_is_over)
            => (UNCHANGED timer /\ ~acted')
        /\ (continued_focus_elapsed_seconds = 0
            /\ continued_focus_elapsed_seconds' > 0)
            => (current_mode = "focus" /\ time_left_seconds = 0) ]_vars

\* C8 happens: startContinuedFocus() refused in the middle of a focus
\* countdown
C8_Witness ==
    /\ op = "start_continue_focus" /\ ~acted
    /\ current_mode = "focus"
    /\ countdown
    /\ time_left_seconds > 0

\* C9: startContinuedFocus() called with its preconditions met leaves the
\* timer running, not paused, continued focus active, remaining 0 and the
\* anchor at the current time.
C9_ContinueFocusStarts ==
    [][ (op' = "start_continue_focus" /\ focus_is_over) =>
          /\ is_running' /\ ~is_paused'
          /\ continued_focus_elapsed_seconds' > 0
          /\ time_left_seconds' = 0
          /\ start_time' = now ]_vars

\* C9 happens: continued focus started from a paused, finished countdown,
\* some time after that countdown began
C9_Witness ==
    /\ op = "start_continue_focus" /\ acted /\ pre_paused
    /\ countup
    /\ time_left_seconds = 0
    /\ start_time = now
    /\ now > 0

\* C10: in continued focus every tick() of a running, unpaused timer sets
\* remaining to the elapsed time and returns "not finished"; remaining never
\* decreases while continued focus stays active, and no tick() returns
\* "finished" there.
C10_CountUpTick ==
    [][ /\ (op' = "tick" /\ countup)
            => (time_left_seconds' = now - start_time /\ ~returned')
        /\ (continued_focus_elapsed_seconds > 0
            /\ continued_focus_elapsed_seconds' > 0)
            => (time_left_seconds' >= time_left_seconds)
        /\ (op' = "tick" /\ continued_focus_elapsed_seconds > 0)
            => ~returned' ]_vars

\* C10 happens: a count-up tick after a pause and a resume, showing a
\* fraction of a second
C10_Witness ==
    /\ op = "tick" /\ acted
    /\ countup
    /\ paused_time > start_time
    /\ time_left_seconds % Res # 0
    /\ ~returned

\* the other mode
Flipped(mode) == IF mode = "focus" THEN "rest" ELSE "focus"

\* C11: switchMode() in any state flips the mode and leaves the timer not
\* running, not paused, continued focus inactive, with remaining the full
\* duration of the new mode; a second switchMode() right after the first is
\* back in the mode the first one left, with that mode's full duration.
C11_SwitchMode ==
    [][ (op' = "switch_mode") =>
          /\ current_mode' = Flipped(current_mode)
          /\ ~is_running' /\ ~is_paused'
          /\ continued_focus_elapsed_seconds' = 0
          /\ time_left_seconds' = InitialDurationFor(current_mode')
          /\ (op = "switch_mode") =>
                 /\ Flipped(current_mode') = current_mode
                 /\ time_left_seconds'
                        = InitialDurationFor(Flipped(current_mode)) ]_vars

\* C11 happens: switchMode() called on a paused timer, landing in Rest with
\* a rest duration that differs from the focus duration
C11_Witness ==
    /\ op = "switch_mode" /\ pre_paused
    /\ current_mode = "rest"
    /\ ~is_running /\ ~is_paused
    /\ time_left_seconds = rest_minutes
    /\ rest_minutes # focus_minutes

\* C12: start() in any state leaves the timer running, not paused, continued
\* focus inactive, the anchor at the current time and remaining at the full
\* duration of the current mode, which it does not change.
C12_Start ==
    [][ (op' = "start") =>
          /\ is_running' /\ ~is_paused'
          /\ continued_focus_elapsed_seconds' = 0
          /\ start_time' = now
          /\ time_left_seconds' = initial_duration_for_mode
          /\ current_mode' = current_mode ]_vars

\* C12 happens: start() called on a paused segment that began earlier
C12_Witness ==
    /\ op = "start" /\ pre_paused
    /\ is_running /\ ~is_paused
    /\ start_time = now
    /\ paused_time > 0
    /\ time_left_seconds = initial_duration_for_mode

\* C13: stop() in any state leaves the timer not running, not paused,
\* continued focus inactive, remaining at the full duration of the current
\* mode, which it does not change.
C13_Stop ==
    [][ (op' = "stop") =>
          /\ ~is_running' /\ ~is_paused'
          /\ continued_focus_elapsed_seconds' = 0
          /\ time_left_seconds' = initial_duration_for_mode
          /\ current_mode' = current_mode ]_vars

\* C13 happens: stop() called on a paused rest segment
C13_Witness ==
    /\ op = "stop" /\ pre_paused
    /\ current_mode = "rest"
    /\ ~is_running /\ ~is_paused
    /\ continued_focus_elapsed_seconds = 0
    /\ time_left_seconds = rest_minutes

\* C14: once a countdown tick() has returned "finished", every further
\* tick() made with nothing but time passing in between returns "finished"
\* too and leaves remaining at 0.
C14_FinishedStaysFinished ==
    [][ (op' = "tick" /\ finished_ticks >= 1) =>
          (returned' /\ time_left_seconds' = 0) ]_vars

\* C14 happens: a second "finished" tick, later than the first
C14_Witness ==
    /\ op = "tick" /\ returned
    /\ finished_ticks = 2
    /\ time_left_seconds = 0
    /\ now - start_time > initial_duration_for_mode

\* C16: in every reachable state paused implies running, and continued
\* focus active implies running and mode = Focus.
C16_FlagsConsistent ==
    /\ is_paused => is_running
    /\ continued_focus_elapsed_seconds > 0
           => (is_running /\ current_mode = "focus")

\* C16 happens: a paused count-up, where all three flags are set
C16_Witness ==
    /\ is_paused /\ is_running
    /\ continued_focus_elapsed_seconds > 0
    /\ current_mode = "focus"

\* a tick() has just returned "finished" with remaining 0
tick_finished == op = "tick" /\ returned /\ time_left_seconds = 0

\* C15 (as claimed): after start(), with time advancing, tick() being called
\* and every pause() followed by resume(), and no start(), stop() or
\* switchMode(), some tick() eventually returns "finished" with remaining 0.
C15_EventuallyFinished == (op = "start") ~> tick_finished

\* C15 (amended): the same, provided no startContinuedFocus() intervenes
\* either; if one does, the timer counts up instead.
C15_EventuallyFinishedOrContinued ==
    (op = "start") ~> (tick_finished \/ continued_focus_elapsed_seconds > 0)

\* C15 happens: a countdown that was paused and resumed on the way reports
\* "finished" for the first time
C15_Witness ==
    /\ tick_finished
    /\ finished_ticks = 1
    /\ continued_focus_elapsed_seconds = 0
    /\ paused_time > 0
    /\ start_time > MaxStep

\* C17: for every pair of positive durations the Timer just constructed has
\* mode = Focus, is not running, not paused, continued focus inactive, and
\* remaining equal to the full focus duration.
C17_Constructed ==
    [][ (op' = "init" /\ ctor'.focus > 0 /\ ctor'.rest > 0) =>
          /\ ctor'.raised = "none"
          /\ current_mode' = "focus"
          /\ ~is_running' /\ ~is_paused'
          /\ continued_focus_elapsed_seconds' = 0
          /\ focus_minutes' = ctor'.focus /\ rest_minutes' = ctor'.rest
          /\ time_left_seconds' = ctor'.focus ]_vars

\* C17 happens: a Timer constructed with a focus duration that differs from
\* its rest duration
C17_Witness ==
    /\ op = "init" /\ acted
    /\ ctor.focus > 0 /\ ctor.rest > 0 /\ ctor.focus # ctor.rest
    /\ current_mode = "focus"
    /\ time_left_seconds = ctor.focus

\* C18: the constructor raises an invalid-argument error and yields no Timer
\* for every pair of durations of which one is <= 0.
C18_ConstructorRejects ==
    [][ (op' = "init" /\ (ctor'.focus <= 0 \/ ctor'.rest <= 0)) =>
          /\ ctor'.raised = "ValueError"
          /\ current_mode' = "none"
          /\ UNCHANGED timer ]_vars

\* C18 happens: a constructor call rejected for its rest duration alone
C18_Witness ==
    /\ op = "init" /\ ~acted
    /\ ctor.focus > 0 /\ ctor.rest <= 0
    /\ ctor.raised = "ValueError"
    /\ current_mode = "none"

\* the file holds a record of today with a total
holds_today == stats_file.kind = "dict" /\ stats_file.date = today
                   /\ stats_file.has_seconds

\* the file holds the record of another day
holds_other_day == stats_file.kind = "dict" /\ stats_file.date # today

\* C19 (as claimed): after save_daily_focus_time(a) followed by
\* save_daily_focus_time(b) on one day, with a, b >= 0, today's stored total
\* is the total before the two calls plus a + b.
C19_TwoSavesAddUp ==
    (/\ Len(stats_hist.args) = 2
     /\ stats_hist.args[1] >= 0 /\ stats_hist.args[2] >= 0)
    => /\ holds_today
       /\ Quanta(stats_file.seconds)
              = Quanta(stats_hist.before2)
                    + stats_hist.args[1] + stats_hist.args[2]

\* C19 (amended): after two such saves that both wrote the file, today's
\* stored total is the total before them plus the whole seconds of a and
\* the whole seconds of b (each amount loses its fraction).
C19_TwoSavesAddWholeSeconds ==
    (/\ Len(stats_hist.args) = 2
     /\ stats_hist.args[1] >= 0 /\ stats_hist.args[2] >= 0)
    => /\ holds_today
       /\ stats_file.seconds
              = stats_hist.before2 + FloorSeconds(stats_hist.args[1])
                    + FloorSeconds(stats_hist.args[2])

\* C19 happens: two saves in a row on top of an earlier total, the first of
\* a fractional amount
C19_Witness ==
    /\ Len(stats_hist.args) = 2
    /\ stats_hist.before2 > 0
    /\ stats_hist.args[1] > Res /\ stats_hist.args[1] % Res # 0
    /\ stats_hist.args[2] >= Res
    /\ holds_today

loaded_after_save ==
    settings_call.name = "load_settings" /\ settings_call.after_save

\* C21: load_settings() returns exactly the default settings, without
\* raising, whenever the settings file does not exist or cannot be read or
\* parsed as JSON.
C21_LoadFallsBackToDefaults ==
    (/\ settings_call.name = "load_settings"
     /\ settings_file.kind \in {"missing", "unreadable", "undecodable",
                                "corrupt"})
        => settings_loaded = [raised |-> "none", value |-> DEFAULT_SETTINGS]

elapsed_since_anchor ==
    (IF is_paused THEN paused_time ELSE now) - start_time

\* C25: whatever pause() and resume() calls follow a start() or an accepted
\* start_continue_focus(), the elapsed time computed from the anchor equals
\* the time spent running and unpaused since that start.
C25_AnchorAgreesWithAccumulator ==
    is_running => elapsed_since_anchor = unpaused

\* a resume() after a pause that lasted, on a segment that had run
C25_Witness ==
    /\ op = "resume"
    /\ acted
    /\ now > paused_time
    /\ unpaused > 0
    /\ now - start_time = unpaused

\* C26 as stated: a countdown tick() returns finished only when the
\* unpaused time elapsed since start() is at least the full duration.
C26_FinishedOnlyAfterFullDuration ==
    (op = "tick" /\ returned) => unpaused >= initial_duration_for_mode

\* C26: a countdown tick() returns finished only when the unpaused time
\* elapsed since start() is more than the full duration less one second
\* (the remaining time is cut to whole seconds, so the end is reported up
\* to a second early, and never earlier).
C26_FinishedWithinLastSecond ==
    (op = "tick" /\ returned)
        => unpaused > initial_duration_for_mode - Quanta(1)

\* a countdown reported finished before its full duration had elapsed,
\* after a pause
C26_Witness ==
    /\ op = "tick"
    /\ returned
    /\ unpaused < initial_duration_for_mode
    /\ unpaused > 0
    /\ now - start_time = unpaused
    /\ start_time > 0

\* ---------------------------------------------------------------------
\* Properties of the driving loop (SpecDriver)
\* ---------------------------------------------------------------------

\* C24: send_notification(message) never raises to its caller: when the
\* delivery fails the notification is skipped and the driving loop goes on.
C24_NotificationNeverRaises ==
    /\ notify_call.raised = "none"
    /\ step \in {"NotifyEnd", "HandlerNotify"} => pc # "exited"

\* C27: each focus countdown that finishes has its focus duration passed to
\* the stats store exactly once, before the rest or the continued focus
\* that follows starts; nothing else in the loop passes it (a finished
\* rest, a pause and a resume leave the store alone).
C27_FocusRecordedOnce ==
    /\ [](/\ focus_saves <= 1
          /\ step \in {"StartRest", "ContinueFocus"} =>
                 (/\ focus_saves = 1
                  /\ stats_call.name = "save_daily_focus_time"
                  /\ stats_call.arg = focus_minutes))
    /\ [][stats_call' # stats_call
              => step' \in {"SaveFocus", "HandlerSave"}]_vars

\* C28: the loop calls start_continue_focus() only when mode is focus,
\* remaining is 0 and continued focus is inactive, so the call is always
\* accepted and the warning branch is never taken.
C28_ContinueFocusCalledInOrder ==
    /\ pc = "continue" => ContinueFocusAllowed
    /\ step = "ContinueFocus" =>
           (op = "start_continue_focus" /\ acted)

\* start_continue_focus() accepted after Ctrl+C had sent the loop round
\* once more
C28_Witness ==
    /\ step = "ContinueFocus"
    /\ acted
    /\ focus_saves = 2
    /\ continued_focus_elapsed_seconds = 1
    /\ time_left_seconds = 0

\* the rest the claim expects after c whole seconds of continued focus:
\* floor((initialFocusSeconds + c) * initialRestMinutes
\*       / initialFocusMinutes), in seconds
expected_rest_seconds ==
    ((initial_focus_minutes + Quanta(continued_seconds))
         * initial_rest_minutes) \div (initial_focus_minutes * Res)

\* C29: a keyboard interrupt during continued focus records the whole
\* seconds c of continued focus (only when c > 0) and leaves the timer in
\* rest mode, running, not paused, continued focus inactive, counting down
\* from floor((initialFocusSeconds + c) * initialRestMinutes /
\* initialFocusMinutes) seconds; the count-up is never paused for a resume.
C29_InterruptedContinuedFocus ==
    /\ step = "HandlerStart" =>
           /\ current_mode = "rest"
           /\ is_running
           /\ ~is_paused
           /\ continued_focus_elapsed_seconds = 0
           /\ time_left_seconds = Quanta(expected_rest_seconds)
           /\ rest_minutes = Quanta(expected_rest_seconds)
           /\ logged = IF continued_seconds > 0
                       THEN <<continued_seconds>> ELSE << >>
    /\ pc \in {"p_pause", "p_input", "p_resume"} =>
           continued_focus_elapsed_seconds = 0

\* C30, its weaker half: the Timer's rest duration stays > 0 for the whole
\* session, whatever rest the handler installs after continued focus.
C30_RestStaysPositive ==
    (pc # "none" /\ current_mode # "none") => rest_minutes > 0

\* the operations of Timer, by the name each call records
TimerOperations ==
    {"tick", "pause", "resume", "start", "stop", "start_continue_focus",
     "switch_mode"}

\* C31: tick(), pause(), resume(), start(), stop() and
\* start_continue_focus() never change the mode, so a change of mode is
\* always a switch_mode(); and no Timer operation changes the focus or the
\* rest duration given to the constructor.
C31_ModeAndDurationsFramed ==
    [][ /\ (op' \in TimerOperations \ {"switch_mode"}) =>
               current_mode' = current_mode
        /\ (current_mode' # current_mode) => op' = "switch_mode"
        /\ (op' \in TimerOperations) =>
               (/\ focus_minutes' = focus_minutes
                /\ rest_minutes' = rest_minutes
                /\ focus_minutes = ctor.focus
                /\ rest_minutes = ctor.rest) ]_vars

\* a stop() in rest mode, after a rest that had been started: the mode is
\* still rest and both durations are the constructor's
C31_Witness ==
    /\ op = "stop"
    /\ current_mode = "rest"
    /\ time_left_seconds = rest_minutes
    /\ rest_minutes = ctor.rest
    /\ focus_minutes = ctor.focus
    /\ focus_minutes # rest_minutes
    /\ start_time > 0

\* C32: whenever the timer is not running, the time left is the full
\* duration of the current mode, in every state the Timer operations reach.
C32_IdleShowsFullDuration ==
    ~is_running => time_left_seconds = initial_duration_for_mode

\* a stop() of a paused countdown that had run for a while: the time left
\* is back at the full duration
C32_Witness ==
    /\ op = "stop"
    /\ pre_paused
    /\ ~is_running
    /\ paused_time > start_time
    /\ time_left_seconds = initial_duration_for_mode

====
